---- MODULE Spec2Model ----
(***************************************************************************)
(* Model of package txx (src/txx.go): the carrier Current kept in a        *)
(* context, the reuse decision NewTransactionRequired, and the lifecycle   *)
(* of Ensure and Wrap: begin, run the work, then commit or roll back in    *)
(* the deferred function.                                                  *)
(*                                                                         *)
(* A context is the chain of carriers that Set has layered on it (the      *)
(* newest last).  The store (database/sql) is the sequence txs of the      *)
(* transactions begun so far, each with the number of Commit and Rollback  *)
(* calls it has received.  Every chain (goroutine) has a stack of calls of *)
(* Ensure/Wrap; the work f of the call on top of the stack is running, and *)
(* may call Ensure or Wrap again, return nil or an error, or panic.        *)
(***************************************************************************)
EXTENDS Integers, Sequences, FiniteSets

VARIABLES
    parent,     \* the context both chains start from
    panicnil,   \* the runtime keeps a nil panic value (go < 1.21, GODEBUG panicnil=1)
    txs,        \* the store: transactions begun so far, handle = index
    stack,      \* per chain: the calls of Ensure/Wrap in progress, innermost last
    result,     \* per chain: how the outermost call ended
    ncalls,     \* number of calls of Ensure/Wrap made so far
    lastDone,   \* the call of Ensure/Wrap that the last step ended, with what it did
    current,    \* NewTransactionRequired applied alone: its receiver,
    reqOpts,    \*   its argument,
    required,   \*   its result
    decided,    \*   and whether it has been applied yet
    setTx,      \* Set and Get applied alone: the transaction given to Set,
    child,      \*   the context Set returned,
    got,        \*   the carrier Get found in it,
    before,     \*   the carrier Get found in the parent before the Set
    applied     \*   and whether Set and Get have been applied yet

plumbVars == <<setTx, child, got, before, applied>>

vars == <<parent, panicnil, txs, stack, result, ncalls, lastDone,
          current, reqOpts, required, decided, plumbVars>>

----------------------------------------------------------------------------
(* Bounds *)

MaxCalls == 2
MaxDepth == 2
MaxIsolation == 3

Chains == {"a", "b"}           \* the call chains (goroutines)

----------------------------------------------------------------------------
(* Values *)

Nil == "nil"                 \* nil: no error, no panic value
NoTx == 0                    \* the nil *sql.Tx
PreTx == 1                   \* a transaction the caller opened on its own

LevelDefault == 0            \* sql.LevelDefault, the zero isolation level

WorkErrors == {"e1", "e2"}   \* errors a work function returns
PanicValues == {"p1", Nil}   \* values a work function panics with
ErrBegin == "errBegin"
ErrCommit == "errCommit"
ErrRollback == "errRollback"
PanicNilError == "PanicNilError"

\* *sql.TxOptions: the nil pointer, or a pointer to the two fields
NilOpts == [null |-> TRUE, ReadOnly |-> FALSE, Isolation |-> LevelDefault]
TxOptions == [null : {FALSE}, ReadOnly : BOOLEAN, Isolation : LevelDefault..MaxIsolation]
AllOpts == {NilOpts} \cup TxOptions

ReadOnly == [null |-> FALSE, ReadOnly |-> TRUE, Isolation |-> LevelDefault]
ReadWrite == [null |-> FALSE, ReadOnly |-> FALSE, Isolation |-> LevelDefault]
Stronger == [null |-> FALSE, ReadOnly |-> FALSE, Isolation |-> MaxIsolation]
\* the options the lifecycle is exercised with: nil, ReadOnly(), &sql.TxOptions{}
\* and &sql.TxOptions{Isolation: ...} with the strongest isolation level
CallOpts == {NilOpts, ReadOnly, ReadWrite, Stronger}

Ret(v) == [kind |-> "ret", val |-> v]
Panic(v) == [kind |-> "panic", val |-> v]
None == [kind |-> "none", val |-> Nil]

----------------------------------------------------------------------------
(* The carrier and the context plumbing *)

Current(tx, opts) == [Tx |-> tx, Opts |-> opts]

\* variant: a carrier that has options counts as valid
MutIsValidByOpts(c) == c.Tx # NoTx \/ c.Opts # NilOpts

IsValid(c) == c.Tx # NoTx

\* variant: a read-write transaction is taken to serve a read-only request
MutNewTransactionRequiredOneWay(c, opts) ==
    IF ~IsValid(c) THEN TRUE
    ELSE IF c.Opts = NilOpts THEN opts # NilOpts
    ELSE IF opts = NilOpts THEN TRUE
    ELSE IF c.Opts.ReadOnly /\ ~opts.ReadOnly THEN TRUE
    ELSE opts.Isolation > c.Opts.Isolation

\* variant: an equal isolation level also asks for a new transaction
MutNewTransactionRequiredGeq(c, opts) ==
    IF ~IsValid(c) THEN TRUE
    ELSE IF c.Opts = NilOpts THEN opts # NilOpts
    ELSE IF opts = NilOpts THEN TRUE
    ELSE IF c.Opts.ReadOnly # opts.ReadOnly THEN TRUE
    ELSE opts.Isolation >= c.Opts.Isolation

\* variant: a transaction opened without options is never reused
MutNewTransactionRequiredNilHeld(c, opts) ==
    IF ~IsValid(c) THEN TRUE
    ELSE IF c.Opts = NilOpts THEN TRUE
    ELSE IF opts = NilOpts THEN TRUE
    ELSE IF c.Opts.ReadOnly # opts.ReadOnly THEN TRUE
    ELSE opts.Isolation > c.Opts.Isolation

\* variant: a request without options takes whatever transaction there is
MutNewTransactionRequiredNilReuses(c, opts) ==
    IF ~IsValid(c) THEN TRUE
    ELSE IF opts = NilOpts THEN FALSE
    ELSE IF c.Opts = NilOpts THEN TRUE
    ELSE IF c.Opts.ReadOnly # opts.ReadOnly THEN TRUE
    ELSE opts.Isolation > c.Opts.Isolation

NewTransactionRequired(c, opts) ==
    IF ~IsValid(c) THEN TRUE
    ELSE IF c.Opts = NilOpts THEN opts # NilOpts
    ELSE IF opts = NilOpts THEN TRUE
    ELSE IF c.Opts.ReadOnly # opts.ReadOnly THEN TRUE
    ELSE opts.Isolation > c.Opts.Isolation

Background == << >>

\* variant: the value set first on the chain is found, not the nearest one
MutGetOldest(ctx) == IF Len(ctx) > 0 THEN ctx[1] ELSE Current(NoTx, NilOpts)

Get(ctx) == IF Len(ctx) > 0 THEN ctx[Len(ctx)] ELSE Current(NoTx, NilOpts)

\* variant: the carrier is not installed
MutSetKeepsCtx(ctx, tx, opts) == ctx

Set(ctx, tx, opts) == Append(ctx, Current(tx, opts))

----------------------------------------------------------------------------
(* Ensure and the start of Wrap *)

\* variant: Ensure always opens a transaction
MutEnsureAlwaysWraps(c, opts) == TRUE

\* Ensure hands the call to Wrap, or else runs the work on the context it got
EnsureWraps(c, opts) == NewTransactionRequired(c, opts)

\* variant: the error of BeginTx is not looked at
MutAfterBeginIgnoresError(err) == "work"

\* Wrap returns at once when BeginTx failed, and goes on to the work otherwise
AfterBegin(err) == IF err # Nil THEN "return" ELSE "work"

----------------------------------------------------------------------------
(* The deferred function of Wrap *)

\* recover(): the value of the panic in flight, nil when there is none
Recover(panicking, p) == IF panicking THEN p ELSE Nil

\* variant: an error returned by the work does not roll back
MutDeferBranchCommitOnError(p, err) ==
    IF p # Nil THEN "repanic" ELSE "commit"

\* which branch of the deferred function runs
DeferBranch(p, err) ==
    IF p # Nil THEN "repanic"
    ELSE IF err # Nil THEN "rollback"
    ELSE "commit"

\* variant: a panic is raised again without rolling back
MutIssuedNothingOnPanic(branch) ==
    [commits   |-> IF branch = "commit" THEN 1 ELSE 0,
     rollbacks |-> IF branch = "rollback" THEN 1 ELSE 0]

\* variant: an error returned by the work leaves the transaction open
MutIssuedNothingOnError(branch) ==
    [commits   |-> IF branch = "commit" THEN 1 ELSE 0,
     rollbacks |-> IF branch = "repanic" THEN 1 ELSE 0]

\* variant: the rollback is issued on every path, as a plain "defer tx.Rollback()"
MutIssuedRollbackAlways(branch) ==
    [commits   |-> IF branch = "commit" THEN 1 ELSE 0,
     rollbacks |-> 1]

\* what each branch issues on the transaction
Issued(branch) ==
    [commits   |-> IF branch = "commit" THEN 1 ELSE 0,
     rollbacks |-> IF branch = "commit" THEN 0 ELSE 1]

\* the local err after the deferred function: only the commit branch assigns it
ErrAfter(branch, err, res) == IF branch = "commit" THEN res ELSE err

\* what Wrap hands to its caller once the deferred function is done: the
\* result set by "return err" before the deferred function ran (the result
\* is unnamed, so the deferred assignment to err does not reach it), or the
\* panic raised again
WrapOutcome(branch, p, ret, err) ==
    IF branch = "repanic" THEN Panic(p) ELSE Ret(ret)

\* the value a panic carries: the runtime replaces nil unless panicnil is set
Fault(v, keepNil) == IF v = Nil /\ ~keepNil THEN PanicNilError ELSE v

----------------------------------------------------------------------------
(* Calls in progress *)

NewCall(fn, ctx, opts, req) ==
    [fn        |-> fn,
     pc        |-> IF req THEN "begin" ELSE "work",
     ctx       |-> ctx,
     opts      |-> opts,
     cur       |-> Get(ctx),
     required  |-> req,
     tx        |-> NoTx,
     err       |-> Nil,
     ret       |-> Nil,
     panicking |-> FALSE,
     p         |-> Nil,
     pending   |-> None,
     nested    |-> [via |-> "none", out |-> None],
     workCtx   |-> IF req THEN Background ELSE ctx,
     begins    |-> 0,
     beginRes  |-> None,
     works     |-> IF req THEN 0 ELSE 1,
     workOut   |-> None,
     commits   |-> 0,
     rollbacks |-> 0,
     finRes    |-> None,
     out       |-> None]

NoCall == [NewCall("none", Background, NilOpts, FALSE) EXCEPT !.pc = "none", !.works = 0]

Top(g) == stack[g][Len(stack[g])]
Rest(g) == SubSeq(stack[g], 1, Len(stack[g]) - 1)
SetTop(g, f) == [stack EXCEPT ![g] = Append(Rest(g), f)]

\* work is running on chain g and no panic is passing through it
Running(g) ==
    /\ stack[g] # << >>
    /\ Top(g).pc = "work"
    /\ Top(g).pending = None

\* chain g can call Ensure or Wrap: from outside, or from the running work
CanCall(g) ==
    /\ ncalls < MaxCalls
    /\ Len(stack[g]) < MaxDepth
    /\ \/ stack[g] = << >> /\ result[g] = None
       \/ Running(g)

\* variant: the carrier installed last is kept in one place for all chains
MutCallerCtxShared(g) ==
    IF stack[g] # << >> THEN Top(g).workCtx
    ELSE IF \E h \in DOMAIN stack : stack[h] # << >> /\ Top(h).works = 1
         THEN Top(CHOOSE h \in DOMAIN stack : stack[h] # << >> /\ Top(h).works = 1).workCtx
         ELSE parent

CallerCtx(g) == IF stack[g] = << >> THEN parent ELSE Top(g).workCtx

\* what the work that made call f is left with when f ends: the outcome, and
\* whether f ran on the caller's transaction or opened its own
Nested(f) == [via |-> IF f.required THEN "wrap" ELSE "reuse", out |-> f.out]

\* variant: the context of the call that ends replaces the caller's
MutCompleteLeaksCtx(g, f) ==
    /\ lastDone' = f
    /\ IF Rest(g) = << >>
       THEN /\ stack' = [stack EXCEPT ![g] = << >>]
            /\ result' = [result EXCEPT ![g] = f.out]
       ELSE /\ stack' = [stack EXCEPT ![g] =
                   [Rest(g) EXCEPT ![Len(Rest(g))].nested = Nested(f),
                                   ![Len(Rest(g))].workCtx = f.workCtx,
                                   ![Len(Rest(g))].pending =
                                       IF f.out.kind = "panic" THEN f.out ELSE None]]
            /\ UNCHANGED result

\* the call f on top of chain g's stack ends: its caller gets the outcome
Complete(g, f) ==
    /\ lastDone' = f
    /\ IF Rest(g) = << >>
       THEN /\ stack' = [stack EXCEPT ![g] = << >>]
            /\ result' = [result EXCEPT ![g] = f.out]
       ELSE /\ stack' = [stack EXCEPT ![g] =
                   [Rest(g) EXCEPT ![Len(Rest(g))].nested = Nested(f),
                                   ![Len(Rest(g))].pending =
                                       IF f.out.kind = "panic" THEN f.out ELSE None]]
            /\ UNCHANGED result

\* variant: an error that a nested call returned stays in err when the work
\* itself returns nil
MutWorkExitKeepsNestedError(g, o) ==
    LET f == [Top(g) EXCEPT !.workOut = o, !.pending = None]
        e == IF o.val = Nil /\ f.nested.out.kind = "ret" THEN f.nested.out.val ELSE o.val
    IN
    IF ~f.required
    THEN Complete(g, [f EXCEPT !.pc = "done", !.out = o])
    ELSE /\ stack' = SetTop(g,
               IF o.kind = "ret"
               THEN [f EXCEPT !.err = e, !.ret = o.val, !.pc = "defer"]
               ELSE [f EXCEPT !.panicking = TRUE, !.p = o.val, !.pc = "defer"])
         /\ lastDone' = NoCall
         /\ UNCHANGED result

\* the work of the call on top ends with outcome o
WorkExit(g, o) ==
    LET f == [Top(g) EXCEPT !.workOut = o, !.pending = None] IN
    IF ~f.required
    THEN Complete(g, [f EXCEPT !.pc = "done", !.out = o])
    ELSE /\ stack' = SetTop(g,
               IF o.kind = "ret"
               THEN [f EXCEPT !.err = o.val, !.ret = o.val, !.pc = "defer"]
               ELSE [f EXCEPT !.panicking = TRUE, !.p = o.val, !.pc = "defer"])
         /\ lastDone' = NoCall
         /\ UNCHANGED result

----------------------------------------------------------------------------
(* Operations *)

Ensure(g, opts) ==
    /\ CanCall(g)
    /\ LET ctx == CallerCtx(g)
           req == EnsureWraps(Get(ctx), opts)
       IN stack' = [stack EXCEPT ![g] = Append(@, NewCall("Ensure", ctx, opts, req))]
    /\ ncalls' = ncalls + 1
    /\ lastDone' = NoCall
    /\ UNCHANGED <<parent, panicnil, txs, result, current, reqOpts, required, decided, plumbVars>>

\* variant: Wrap looks at the carrier as Ensure does
MutWrapReuses(g, opts) ==
    /\ CanCall(g)
    /\ LET ctx == CallerCtx(g)
           req == NewTransactionRequired(Get(ctx), opts)
       IN stack' = [stack EXCEPT ![g] = Append(@, NewCall("Wrap", ctx, opts, req))]
    /\ ncalls' = ncalls + 1
    /\ lastDone' = NoCall
    /\ UNCHANGED <<parent, panicnil, txs, result, current, reqOpts, required, decided, plumbVars>>

Wrap(g, opts) ==
    /\ CanCall(g)
    /\ stack' = [stack EXCEPT ![g] = Append(@, NewCall("Wrap", CallerCtx(g), opts, TRUE))]
    /\ ncalls' = ncalls + 1
    /\ lastDone' = NoCall
    /\ UNCHANGED <<parent, panicnil, txs, result, current, reqOpts, required, decided, plumbVars>>

\* db.BeginTx answers: a new transaction, or no transaction and an error
BeginTx(g, ok) ==
    /\ stack[g] # << >>
    /\ Top(g).pc = "begin"
    /\ LET err == IF ok THEN Nil ELSE ErrBegin
           tx == IF ok THEN Len(txs) + 1 ELSE NoTx
           f == [Top(g) EXCEPT !.tx = tx, !.err = err, !.begins = @ + 1,
                               !.beginRes = Ret(err)]
       IN /\ txs' = IF ok
                    THEN Append(txs, [opts |-> f.opts, commits |-> 0, rollbacks |-> 0])
                    ELSE txs
          /\ IF AfterBegin(err) = "return"
             THEN Complete(g, [f EXCEPT !.pc = "done", !.out = Ret(err)])
             ELSE /\ stack' = SetTop(g, [f EXCEPT !.pc = "work",
                                                  !.workCtx = Set(f.ctx, tx, f.opts),
                                                  !.works = @ + 1])
                  /\ lastDone' = NoCall
                  /\ UNCHANGED result
    /\ UNCHANGED <<parent, panicnil, ncalls, current, reqOpts, required, decided, plumbVars>>

WorkReturn(g, e) ==
    /\ Running(g)
    /\ WorkExit(g, Ret(e))
    /\ UNCHANGED <<parent, panicnil, txs, ncalls, current, reqOpts, required, decided, plumbVars>>

WorkPanic(g, v) ==
    /\ Running(g)
    /\ WorkExit(g, Panic(Fault(v, panicnil)))
    /\ UNCHANGED <<parent, panicnil, txs, ncalls, current, reqOpts, required, decided, plumbVars>>

\* a panic that came out of a nested call passes through the work that made it
Unwind(g) ==
    /\ stack[g] # << >>
    /\ Top(g).pc = "work"
    /\ Top(g).pending # None
    /\ WorkExit(g, Top(g).pending)
    /\ UNCHANGED <<parent, panicnil, txs, ncalls, current, reqOpts, required, decided, plumbVars>>

Deferred(g, ok) ==
    /\ stack[g] # << >>
    /\ Top(g).pc = "defer"
    /\ LET f == Top(g)
           p == Recover(f.panicking, f.p)
           branch == DeferBranch(p, f.err)
           issued == Issued(branch)
           res == IF ok THEN Nil
                  ELSE IF branch = "commit" THEN ErrCommit ELSE ErrRollback
           err == ErrAfter(branch, f.err, res)
       IN /\ txs' = [txs EXCEPT ![f.tx].commits = @ + issued.commits,
                                ![f.tx].rollbacks = @ + issued.rollbacks]
          /\ Complete(g, [f EXCEPT !.err = err,
                                   !.commits = issued.commits,
                                   !.rollbacks = issued.rollbacks,
                                   !.finRes = Ret(res),
                                   !.pc = "done",
                                   !.out = WrapOutcome(branch, p, f.ret, err)])
    /\ UNCHANGED <<parent, panicnil, ncalls, current, reqOpts, required, decided, plumbVars>>

----------------------------------------------------------------------------
(* Specification of the lifecycle *)

\* the contexts a caller starts from: without a carrier, with an invalid one,
\* or with the carrier of a transaction the caller opened
ParentCtxs ==
    {Background, Set(Background, NoTx, ReadOnly)}
        \cup {Set(Background, PreTx, o) : o \in CallOpts}

\* one call chain
Init ==
    /\ parent \in ParentCtxs
    /\ panicnil \in BOOLEAN
    /\ txs = <<[opts |-> NilOpts, commits |-> 0, rollbacks |-> 0]>>
    /\ stack = [g \in {"a"} |-> << >>]
    /\ result = [g \in {"a"} |-> None]
    /\ ncalls = 0
    /\ lastDone = NoCall
    /\ current = Current(NoTx, NilOpts)
    /\ reqOpts = NilOpts
    /\ required = FALSE
    /\ decided = FALSE
    /\ setTx = NoTx
    /\ child = Background
    /\ got = Current(NoTx, NilOpts)
    /\ before = Current(NoTx, NilOpts)
    /\ applied = FALSE

Next ==
    \/ \E g \in DOMAIN stack, o \in CallOpts : Ensure(g, o)
    \/ \E g \in DOMAIN stack, o \in CallOpts : Wrap(g, o)
    \/ \E g \in DOMAIN stack, ok \in BOOLEAN : BeginTx(g, ok)
    \/ \E g \in DOMAIN stack, e \in {Nil} \cup WorkErrors : WorkReturn(g, e)
    \/ \E g \in DOMAIN stack, v \in PanicValues : WorkPanic(g, v)
    \/ \E g \in DOMAIN stack : Unwind(g)
    \/ \E g \in DOMAIN stack, ok \in BOOLEAN : Deferred(g, ok)

Spec == Init /\ [][Next]_vars

\* two call chains that start from the same parent context
InitConcurrent ==
    /\ parent \in {Background, Set(Background, PreTx, NilOpts)}
    /\ panicnil \in BOOLEAN
    /\ txs = <<[opts |-> NilOpts, commits |-> 0, rollbacks |-> 0]>>
    /\ stack = [g \in Chains |-> << >>]
    /\ result = [g \in Chains |-> None]
    /\ ncalls = 0
    /\ lastDone = NoCall
    /\ current = Current(NoTx, NilOpts)
    /\ reqOpts = NilOpts
    /\ required = FALSE
    /\ decided = FALSE
    /\ setTx = NoTx
    /\ child = Background
    /\ got = Current(NoTx, NilOpts)
    /\ before = Current(NoTx, NilOpts)
    /\ applied = FALSE

\* the options the two chains ask for: nil and ReadOnly()
ConcurrentOpts == {NilOpts, ReadOnly}

NextConcurrent ==
    \/ \E g \in DOMAIN stack, o \in ConcurrentOpts : Ensure(g, o)
    \/ \E g \in DOMAIN stack, o \in ConcurrentOpts : Wrap(g, o)
    \/ \E g \in DOMAIN stack, ok \in BOOLEAN : BeginTx(g, ok)
    \/ \E g \in DOMAIN stack, e \in {Nil} \cup WorkErrors : WorkReturn(g, e)
    \/ \E g \in DOMAIN stack, v \in PanicValues : WorkPanic(g, v)
    \/ \E g \in DOMAIN stack : Unwind(g)
    \/ \E g \in DOMAIN stack, ok \in BOOLEAN : Deferred(g, ok)

SpecConcurrent == InitConcurrent /\ [][NextConcurrent]_vars

----------------------------------------------------------------------------
(* Specification of the decision rule alone *)

Decide ==
    /\ ~decided
    /\ required' = NewTransactionRequired(current, reqOpts)
    /\ decided' = TRUE
    /\ UNCHANGED <<parent, panicnil, txs, stack, result, ncalls, lastDone,
                   current, reqOpts, plumbVars>>

InitDecide ==
    /\ parent = Background
    /\ panicnil = FALSE
    /\ txs = <<[opts |-> NilOpts, commits |-> 0, rollbacks |-> 0]>>
    /\ stack = [g \in Chains |-> << >>]
    /\ result = [g \in Chains |-> None]
    /\ ncalls = 0
    /\ lastDone = NoCall
    /\ current \in {Current(tx, o) : tx \in {NoTx, PreTx}, o \in AllOpts}
    /\ reqOpts \in AllOpts
    /\ required = FALSE
    /\ decided = FALSE
    /\ setTx = NoTx
    /\ child = Background
    /\ got = Current(NoTx, NilOpts)
    /\ before = Current(NoTx, NilOpts)
    /\ applied = FALSE

NextDecide == Decide

SpecDecide == InitDecide /\ [][NextDecide]_vars

----------------------------------------------------------------------------
(* Specification of the context plumbing alone *)

\* contexts with no carrier, one carrier, and one carrier over another
PlumbCtxs ==
    {Background}
        \cup {Set(Background, tx, o) : tx \in {NoTx, PreTx}, o \in CallOpts}
        \cup {Set(Set(Background, PreTx, o), PreTx + 1, ReadOnly) : o \in CallOpts}

SetGet ==
    /\ ~applied
    /\ child' = Set(parent, setTx, reqOpts)
    /\ got' = Get(child')
    /\ applied' = TRUE
    /\ UNCHANGED <<parent, panicnil, txs, stack, result, ncalls, lastDone,
                   current, reqOpts, required, decided, setTx, before>>

InitPlumbing ==
    /\ parent \in PlumbCtxs
    /\ panicnil = FALSE
    /\ txs = <<[opts |-> NilOpts, commits |-> 0, rollbacks |-> 0]>>
    /\ stack = [g \in Chains |-> << >>]
    /\ result = [g \in Chains |-> None]
    /\ ncalls = 0
    /\ lastDone = NoCall
    /\ current = Current(NoTx, NilOpts)
    /\ reqOpts \in AllOpts
    /\ required = FALSE
    /\ decided = FALSE
    /\ setTx \in {NoTx, PreTx, PreTx + 1}
    /\ child = Background
    /\ got = Current(NoTx, NilOpts)
    /\ before = Get(parent)
    /\ applied = FALSE

NextPlumbing == SetGet

SpecPlumbing == InitPlumbing /\ [][NextPlumbing]_vars

----------------------------------------------------------------------------
(* The calls the properties speak about *)

\* the calls in progress, on every chain
Frames == UNION {{stack[g][i] : i \in 1..Len(stack[g])} : g \in DOMAIN stack}

\* the calls in progress and the call that has just ended
Calls == Frames \cup (IF lastDone.fn = "none" THEN {} ELSE {lastDone})

Ended(c) == c.pc = "done"

\* BeginTx gave the call a transaction
Began(c) == c.beginRes = Ret(Nil)

\* a call in progress holds transaction t
InFlight(t) == \E c \in Frames : c.tx = t

\* the transactions opened by Wrap
Opened == (PreTx + 1)..Len(txs)

----------------------------------------------------------------------------
(* Properties of the lifecycle, checked under Spec *)

\* C1: when begin succeeds and the work returns nil, commit is issued; a
\* failure of that commit is what Wrap returns, and Wrap returns nil only
\* when the commit succeeded.
C1_CommitFailureReturned ==
    \A c \in Calls :
        (Ended(c) /\ Began(c) /\ c.workOut = Ret(Nil)) =>
            /\ c.commits = 1
            /\ c.finRes # Ret(Nil) => c.out = c.finRes
            /\ c.out = Ret(Nil) => c.finRes = Ret(Nil)

\* C2: every transaction Wrap opened has received no commit and no rollback
\* while its Wrap is in progress, and exactly one of the two, once, when its
\* Wrap has ended, by a return or by a panic.
C2_ExactlyOneOfCommitRollback ==
    /\ \A t \in Opened :
          txs[t].commits + txs[t].rollbacks = IF InFlight(t) THEN 0 ELSE 1
    /\ \A c \in Calls :
          (Ended(c) /\ Began(c)) =>
              /\ c.commits + c.rollbacks = 1
              /\ txs[c.tx].commits = c.commits
              /\ txs[c.tx].rollbacks = c.rollbacks

C2_Witness ==
    /\ Began(lastDone)
    /\ lastDone.out.kind = "panic"
    /\ txs[lastDone.tx].rollbacks = 1

\* C3: when begin succeeds and the work returns an error e, rollback is
\* issued, commit is not, and Wrap returns e whatever the rollback answers.
C3_WorkErrorRollsBackAndIsReturned ==
    \A c \in Calls :
        (Ended(c) /\ Began(c) /\ c.workOut.kind = "ret" /\ c.workOut.val # Nil) =>
            /\ c.rollbacks = 1 /\ c.commits = 0
            /\ txs[c.tx].rollbacks = 1 /\ txs[c.tx].commits = 0
            /\ c.out = c.workOut

C3_Witness ==
    /\ Began(lastDone)
    /\ lastDone.workOut = Ret("e2")
    /\ lastDone.finRes = Ret(ErrRollback)
    /\ lastDone.out = Ret("e2")

\* C4: when begin succeeds and the work panics, rollback is issued, commit
\* is not, and the same panic value leaves Wrap; Wrap does not return.
C4_PanicRollsBackAndPropagates ==
    \A c \in Calls :
        (Ended(c) /\ Began(c) /\ c.workOut.kind = "panic") =>
            /\ c.rollbacks = 1 /\ c.commits = 0
            /\ txs[c.tx].rollbacks = 1 /\ txs[c.tx].commits = 0
            /\ c.out = c.workOut

\* C5: when begin fails, Wrap returns that failure at once: the work is not
\* invoked, no carrier is installed, neither commit nor rollback is issued.
C5_BeginFailureReturnedAtOnce ==
    \A c \in Calls :
        (c.beginRes.kind = "ret" /\ c.beginRes.val # Nil) =>
            /\ Ended(c)
            /\ c.out = c.beginRes
            /\ c.works = 0 /\ c.workOut = None
            /\ c.tx = NoTx
            /\ c.commits = 0 /\ c.rollbacks = 0

C5_Witness ==
    /\ lastDone.fn = "Wrap"
    /\ lastDone.beginRes = Ret(ErrBegin)
    /\ lastDone.out = Ret(ErrBegin)

\* C6: when begin succeeds and the work returns nil, commit is issued exactly
\* once on the new transaction and rollback is not issued on it.
C6_SuccessCommitsOnce ==
    \A c \in Calls :
        (Ended(c) /\ Began(c) /\ c.workOut = Ret(Nil)) =>
            /\ c.commits = 1 /\ c.rollbacks = 0
            /\ txs[c.tx].commits = 1 /\ txs[c.tx].rollbacks = 0

C6_Witness ==
    /\ lastDone.fn = "Wrap"
    /\ Began(lastDone)
    /\ lastDone.workOut = Ret(Nil)
    /\ txs[lastDone.tx].commits = 1

\* C7: an Ensure whose context holds a carrier that needs no new transaction
\* for the options issues no begin, commit or rollback, invokes the work once
\* on the very context it got, and returns what the work returns.
C7_ReuseRunsWorkOnSameContext ==
    \A c \in Calls :
        (c.fn = "Ensure" /\ ~NewTransactionRequired(Get(c.ctx), c.opts)) =>
            /\ c.begins = 0 /\ c.tx = NoTx
            /\ c.commits = 0 /\ c.rollbacks = 0
            /\ c.works = 1
            /\ c.workCtx = c.ctx
            /\ Get(c.workCtx).Tx = c.cur.Tx
            /\ Ended(c) => c.out = c.workOut

C7_Witness ==
    /\ lastDone.fn = "Ensure"
    /\ IsValid(lastDone.cur)
    /\ ~NewTransactionRequired(lastDone.cur, lastDone.opts)
    /\ lastDone.works = 1
    /\ lastDone.out = Ret("e1")

\* C8: an Ensure whose context holds no valid carrier issues exactly one
\* begin, whatever the options, and hands the work a context whose carrier is
\* valid and holds the transaction that begin opened and the options asked for.
C8_InvalidCarrierOpensOne ==
    \A c \in Calls :
        (c.fn = "Ensure" /\ ~IsValid(Get(c.ctx))) =>
            /\ c.begins = IF c.pc = "begin" THEN 0 ELSE 1
            /\ c.works = IF Began(c) THEN 1 ELSE 0
            /\ Began(c) =>
                  /\ c.tx \in Opened
                  /\ txs[c.tx].opts = c.opts
                  /\ IsValid(Get(c.workCtx))
                  /\ Get(c.workCtx) = Current(c.tx, c.opts)

C8_Witness ==
    \E c \in Frames :
        /\ c.fn = "Ensure"
        /\ ~IsValid(Get(c.ctx))
        /\ c.opts = NilOpts
        /\ c.pc = "work"
        /\ IsValid(Get(c.workCtx))

----------------------------------------------------------------------------
(* Properties of the decision rule, checked under SpecDecide *)

BothSet == current.Opts # NilOpts /\ reqOpts # NilOpts

\* C9: on a valid carrier, held and requested options that are both non-nil
\* and differ in ReadOnly require a new transaction, in both directions and
\* whatever the two isolation levels.
C9_ReadOnlyMismatchRequiresNew ==
    (decided /\ IsValid(current) /\ BothSet
        /\ current.Opts.ReadOnly # reqOpts.ReadOnly) => required

C9_Witness ==
    /\ decided /\ IsValid(current) /\ BothSet
    /\ ~current.Opts.ReadOnly /\ reqOpts.ReadOnly
    /\ reqOpts.Isolation < current.Opts.Isolation
    /\ required

\* C10: on a valid carrier, held and requested options that are both non-nil
\* and agree on ReadOnly require a new transaction exactly when the requested
\* isolation level is strictly greater than the held one.
C10_IsolationIncreaseRequiresNew ==
    (decided /\ IsValid(current) /\ BothSet
        /\ current.Opts.ReadOnly = reqOpts.ReadOnly) =>
            (required <=> reqOpts.Isolation > current.Opts.Isolation)

C10_Witness ==
    /\ decided /\ IsValid(current) /\ BothSet
    /\ current.Opts.ReadOnly = reqOpts.ReadOnly
    /\ reqOpts.Isolation = current.Opts.Isolation
    /\ current.Opts.Isolation > LevelDefault
    /\ ~required

\* C11: on a valid carrier nil options are a state of their own: held nil and
\* requested non-nil, or held non-nil and requested nil, require a new
\* transaction whatever the non-nil options hold; held nil and requested nil
\* do not.
C11_NilOptionsAreDistinct ==
    (decided /\ IsValid(current) /\ ~BothSet) =>
        (required <=> (current.Opts # NilOpts \/ reqOpts # NilOpts))

C11_Witness ==
    /\ decided /\ IsValid(current)
    /\ current.Opts # NilOpts /\ current.Opts.Isolation = MaxIsolation
    /\ reqOpts = NilOpts
    /\ required

\* C12: a carrier without a transaction is invalid whatever its options, and
\* requires a new transaction for every requested options, nil and its own
\* options included.
C12_InvalidCarrierRequiresNew ==
    (decided /\ current.Tx = NoTx) => (~IsValid(current) /\ required)

C12_Witness ==
    /\ decided
    /\ current.Tx = NoTx
    /\ current.Opts # NilOpts
    /\ reqOpts = current.Opts
    /\ required

----------------------------------------------------------------------------
(* Properties of the context plumbing, checked under SpecPlumbing *)

\* C13: Get on the context Set returned yields a carrier with exactly the
\* transaction and options given to Set, and the context given to Set is
\* left as it was: Get on it yields the same carrier as before the Set, the
\* empty invalid carrier when it held none.
C13_SetGetRoundTrip ==
    applied =>
        /\ got = Current(setTx, reqOpts)
        /\ Get(parent) = before
        /\ parent = Background => Get(parent) = Current(NoTx, NilOpts)
        /\ parent = Background => ~IsValid(Get(parent))

C13_Witness ==
    /\ applied
    /\ IsValid(before)
    /\ setTx # NoTx /\ setTx # before.Tx
    /\ reqOpts # before.Opts
    /\ got = Current(setTx, reqOpts)
    /\ Get(parent) = before

----------------------------------------------------------------------------
(* Properties of nested and concurrent calls *)

\* the carrier the work of call c was started under
Carrier(c) == IF c.required THEN Current(c.tx, c.opts) ELSE c.cur

\* the work of call c has been started
Started(c) == c.works = 1

\* C14: a transaction opened by a call nested in a work is visible to the
\* nested work only: at every depth, during the nested call and after it,
\* Get on the context of the outer work yields the carrier that work was
\* started under, and the nested call starts from that context.
C14_InnerCarrierNotSeenOutside ==
    \A g \in DOMAIN stack : \A i \in 1..Len(stack[g]) :
        LET o == stack[g][i] IN
        /\ Started(o) => Get(o.workCtx) = Carrier(o)
        /\ i < Len(stack[g]) =>
              LET n == stack[g][i + 1] IN
              /\ n.ctx = o.workCtx
              /\ Began(n) =>
                    /\ Get(n.workCtx) = Current(n.tx, n.opts)
                    /\ n.tx # Get(o.workCtx).Tx

C14_Witness ==
    \E g \in DOMAIN stack :
        /\ stack[g] # << >>
        /\ Began(Top(g))
        /\ Began(lastDone)
        /\ Top(g).nested = Nested(lastDone)
        /\ lastDone.ctx = Top(g).workCtx
        /\ Get(Top(g).workCtx) = Current(Top(g).tx, Top(g).opts)
        /\ Get(lastDone.workCtx).Tx = lastDone.tx

\* the transactions the calls in progress on chain g have opened
OwnTxs(g) == {stack[g][i].tx : i \in 1..Len(stack[g])} \ {NoTx}

\* C15 (checked under SpecConcurrent): with two chains started from the same
\* parent context, under every interleaving the work of a chain sees the
\* carrier of the parent or one installed by its own chain, never a
\* transaction of the other chain; a transaction is untouched while the call
\* that opened it is in progress, whatever the other chain does, and is
\* committed or rolled back by the outcome of the work of that call.
C15_ChainsAreIndependent ==
    /\ \A g \in DOMAIN stack : \A i \in 1..Len(stack[g]) :
          LET f == stack[g][i] IN
          /\ Started(f) =>
                /\ Get(f.workCtx).Tx \in {Get(parent).Tx} \cup OwnTxs(g)
                /\ \A h \in DOMAIN stack \ {g} : Get(f.workCtx).Tx \notin OwnTxs(h)
          /\ Began(f) => txs[f.tx].commits + txs[f.tx].rollbacks = 0
    /\ \A c \in Calls :
          (Ended(c) /\ Began(c)) =>
              /\ txs[c.tx].commits + txs[c.tx].rollbacks = 1
              /\ txs[c.tx].commits = 1 => c.workOut.val = Nil
              /\ txs[c.tx].rollbacks = 1 =>
                    (c.workOut.kind = "panic" \/ c.workOut.val # Nil)

C15_Witness ==
    /\ Began(lastDone)
    /\ lastDone.workOut = Ret(Nil)
    /\ txs[lastDone.tx].commits = 1
    /\ \E g \in DOMAIN stack :
          /\ stack[g] # << >>
          /\ Began(Top(g))
          /\ Top(g).pc = "defer"
          /\ Top(g).workOut = Ret("e1")
          /\ Top(g).ctx = lastDone.ctx
          /\ Top(g).nested.via = "none"
          /\ Top(g).tx < lastDone.tx

\* commits and rollbacks transaction t has received
Finalized(t) == txs[t].commits + txs[t].rollbacks

\* C16 (checked under Spec): a transaction opened by Wrap is begun, then the
\* work runs, then it is committed or rolled back, then Wrap ends.  Before
\* begin has answered there is no transaction and no work; while the work, or
\* an Ensure nested in it on the context the work received, is running, the
\* transaction of its carrier is begun and neither committed nor rolled back;
\* when Wrap has ended, by a return or a panic, its transaction is committed
\* or rolled back; and a transaction opened by a nested call is finalized
\* while the transactions of the calls around it are still open.
C16_LifecycleOrder ==
    /\ \A c \in Frames :
          /\ c.pc = "begin" => (c.tx = NoTx /\ c.works = 0)
          /\ (c.required /\ c.pc \in {"work", "defer"}) =>
                (Began(c) /\ c.tx \in Opened /\ Started(c) /\ Finalized(c.tx) = 0)
          /\ (c.pc = "work" /\ Get(c.workCtx).Tx \in Opened) =>
                Finalized(Get(c.workCtx).Tx) = 0
    /\ (Ended(lastDone) /\ Began(lastDone)) =>
          /\ Finalized(lastDone.tx) = 1
          /\ \A c \in Frames :
                Began(c) => (c.tx < lastDone.tx /\ Finalized(c.tx) = 0)
    /\ \A g \in DOMAIN stack : \A i, j \in 1..Len(stack[g]) :
          (i < j /\ Began(stack[g][i]) /\ Began(stack[g][j])) =>
              stack[g][i].tx < stack[g][j].tx

C16_Witness ==
    /\ Ended(lastDone) /\ Began(lastDone)
    /\ Finalized(lastDone.tx) = 1
    /\ \E c \in Frames :
          /\ Began(c) /\ c.pc = "work"
          /\ lastDone.ctx = c.workCtx
          /\ Finalized(c.tx) = 0

\* C17 (checked under Spec): Wrap never reuses.  On every context, one whose
\* carrier is valid and needs no new transaction for the options included,
\* a Wrap call issues exactly one begin, and its work runs under a carrier
\* that holds the transaction that begin opened, not the one of the context.
C17_WrapAlwaysBegins ==
    \A c \in Calls :
        c.fn = "Wrap" =>
            /\ c.begins = IF c.pc = "begin" THEN 0 ELSE 1
            /\ c.works = IF Began(c) THEN 1 ELSE 0
            /\ Began(c) =>
                  /\ c.tx \in Opened
                  /\ c.tx # Get(c.ctx).Tx
                  /\ txs[c.tx].opts = c.opts
                  /\ Get(c.workCtx) = Current(c.tx, c.opts)

C17_Witness ==
    \E c \in Frames :
        /\ c.fn = "Wrap"
        /\ IsValid(Get(c.ctx))
        /\ ~NewTransactionRequired(Get(c.ctx), c.opts)
        /\ c.pc = "work"
        /\ c.begins = 1
        /\ Get(c.workCtx).Tx = c.tx
        /\ Get(c.ctx).Tx \in Opened

\* C18 (checked under Spec): Ensure is idempotent under nesting.  A carrier
\* that holds a transaction and any options, nil or not, requires no new
\* transaction for those same options; so an Ensure called from the work of
\* a call with the same options issues no begin and runs its work under the
\* carrier of that work, and a chain of such calls issues at most one begin.
C18_SameOptionsReuse ==
    /\ \A c \in Frames :
          Began(c) => \A o \in AllOpts : ~NewTransactionRequired(Current(c.tx, o), o)
    /\ \A g \in DOMAIN stack : \A i \in 1..Len(stack[g]) :
          i < Len(stack[g]) =>
              LET o == stack[g][i]
                  n == stack[g][i + 1]
              IN (n.fn = "Ensure" /\ n.opts = o.opts) =>
                    /\ ~n.required
                    /\ n.begins = 0 /\ n.tx = NoTx
                    /\ o.begins + n.begins <= 1
                    /\ Get(n.workCtx) = Get(o.workCtx)

C18_Witness ==
    \E g \in DOMAIN stack :
        /\ Len(stack[g]) = 2
        /\ stack[g][1].fn = "Ensure" /\ Began(stack[g][1])
        /\ stack[g][2].fn = "Ensure"
        /\ stack[g][1].opts = NilOpts /\ stack[g][2].opts = NilOpts
        /\ stack[g][2].pc = "work"
        /\ Get(stack[g][2].workCtx).Tx = stack[g][1].tx

\* C19 (checked under Spec): the fate of a transaction is decided by the
\* outcome of the work of the Wrap that opened it, and by nothing else.  An
\* Ensure on the reuse path issues no commit and no rollback, also when its
\* work returns an error, and leaves the transaction it ran on open; when the
\* work of the call that opened the transaction returns nil the transaction
\* is committed, whatever a nested call returned to that work; and it is
\* rolled back only when that work returned an error or panicked.
C19_FateDecidedByOwnersWork ==
    \A c \in Calls :
        /\ (c.fn = "Ensure" /\ ~c.required) =>
              /\ c.commits = 0 /\ c.rollbacks = 0
              /\ Get(c.ctx).Tx \in Opened => Finalized(Get(c.ctx).Tx) = 0
        /\ (Ended(c) /\ Began(c) /\ c.workOut = Ret(Nil)) =>
              (txs[c.tx].commits = 1 /\ txs[c.tx].rollbacks = 0)
        /\ (Ended(c) /\ Began(c) /\ txs[c.tx].rollbacks = 1) =>
              (c.workOut.kind = "panic" \/ c.workOut.val # Nil)

C19_Witness ==
    /\ Ended(lastDone) /\ Began(lastDone)
    /\ lastDone.nested = [via |-> "reuse", out |-> Ret("e1")]
    /\ lastDone.workOut = Ret(Nil)
    /\ txs[lastDone.tx].commits = 1
    /\ txs[lastDone.tx].rollbacks = 0

====
